---- MODULE Spec2Model ----
(***************************************************************************)
(* Authentication / session subsystem of the Express API server:           *)
(* register, login, refresh, logout, verifyEmail, forgotPassword and       *)
(* resetPassword over the Prisma datastore (users, user sessions, e-mail   *)
(* verification tokens, password reset tokens).                            *)
(*                                                                         *)
(* Time is a discrete clock `now`; the configured durations are expressed  *)
(* in ticks of that clock.  A random 256-bit token is named by its use and *)
(* by how many tokens were drawn for that use before it (every generated   *)
(* token is new).  Client metadata of a session (user agent, IP address)   *)
(* takes no part in any decision and is left out.                          *)
(***************************************************************************)
EXTENDS Integers, Sequences, FiniteSets, TLC

\* ------------------------------------------------------------------ bounds
MaxUsers == 2
MaxSessions == 3
MaxResetTokens == 2
MaxTime == 2
MaxAttempts == 3
MaxAdminChanges == 1
MaxSteps == 6

\* --------------------------------------------- configuration (config.auth)
maxLoginAttempts == 2
lockDurationMinutes == 1
refreshTokenExpiresDays == 1
emailTokenExpiresMinutes == 1
passwordResetTokenExpiresMinutes == 1

\* config.jwt: lifetime of an access token, and the signing secret
accessExpiration == 1
JwtSecret == "secret"

\* ------------------------------------------------------------ input values
Emails == {"a@x", "b@x"}
Names == {"Ann"}
DummyPlain == "dummy"
Passwords == {"pw1", DummyPlain}
Procs == {1, 2}

Null == -1

\* ---------------------------------------------------------------- crypto
\* argon2.hash(password): one-way; the salt plays no part in verification.
hashPassword(password) == [alg |-> "argon2id", pw |-> password]

NullPassword == [alg |-> "null", pw |-> "-"]
MalformedHash == [alg |-> "malformed", pw |-> "-"]

\* Dummy hash for timing attack mitigation
DUMMY_HASH == [alg |-> "argon2id", pw |-> DummyPlain]

\* argon2.verify(hash, password); a hash argon2 cannot parse throws, and the
\* catch returns false.
verifyPassword(password, hash) ==
    IF hash.alg = "argon2id" THEN hash.pw = password ELSE FALSE

\* crypto.randomBytes(32).toString('hex'): the token drawn after n others
\* for the same use.
generateRandomToken(use, n) == [use |-> use, n |-> n + 1]

NoRaw == [use |-> "none", n |-> 0]

\* Variant: the token is kept as it is.
hashTokenPlain(token) == token

\* sha256 hex digest of a token.
hashToken(token) == [sha256 |-> token]

\* date-fns
addMinutes(t, m) == t + m
addDays(t, d) == t + d
isAfter(a, b) == a > b

VARIABLES
    users,        \* table "users": sequence, id = position
    sessions,     \* table "user_sessions": sequence, id = position
    emailTokens,  \* table "email_verification_tokens"
    resetTokens,  \* table "password_reset_tokens"
    now,          \* the clock read by new Date()
    last,         \* the request completed last and its response
    effects,      \* what that request did besides its datastore writes
    pend,         \* requests in flight between two datastore calls
    chain,        \* history: session id -> id of the login session it descends from
    origin,       \* history: session id -> the credential the session was obtained with
    spent,        \* history: refresh tokens that a refresh call has rotated
    voided,       \* history: refresh tokens issued to a user before a password reset
    issued,       \* history: the access tokens signed so far
    consumed,     \* history: one-time tokens, in the order their transactions ran
    misses,       \* history: user id -> wrong-password logins completed since the
                  \* counter was last reset
    steps         \* number of steps taken so far

vars == <<users, sessions, emailTokens, resetTokens, now, last, effects, pend, chain, origin,
          spent, voided, issued, consumed, misses, steps>>
db == <<users, sessions, emailTokens, resetTokens>>

\* ------------------------------------------------------------ responses
NoAccess == [userId |-> 0, sessionId |-> 0, role |-> "none", exp |-> Null, sig |-> "none"]

\* A completed request: the operation, the token or session id it was given,
\* the kind and message of the failure ("ok" for success) and the tokens
\* returned.
Response(op, arg, kind, msg, access, refresh) ==
    [op |-> op, arg |-> arg, kind |-> kind, msg |-> msg,
     accessToken |-> access, refreshToken |-> refresh]

Fail(op, arg, kind, msg) == Response(op, arg, kind, msg, NoAccess, NoRaw)

Ok(op, arg) == Response(op, arg, "ok", "ok", NoAccess, NoRaw)

Idle == [op |-> "idle"]

\* jwt.sign(payload, config.jwt.secret, { expiresIn, ... }) at time t
generateAccessToken(userId, sessionId, t) ==
    [userId |-> userId, sessionId |-> sessionId, role |-> "user",
     exp |-> t + accessExpiration, sig |-> JwtSecret]

\* jwt.verify(token, secret) at time t: the signature and the expiry
jwtVerify(token, secret, t) == token.sig = secret /\ t < token.exp

\* Variant: the session named by the payload is looked up as well.
AuthenticateResultLiveSession(token, t) ==
    IF token = NoAccess
    THEN Fail("authenticate", token, "Unauthorized", "Missing authentication token")
    ELSE IF /\ jwtVerify(token, JwtSecret, t)
            /\ token.sessionId \in DOMAIN sessions
            /\ sessions[token.sessionId].revokedAt = Null
    THEN Response("authenticate", token, "ok", "ok", token, NoRaw)
    ELSE Fail("authenticate", token, "Unauthorized", "Invalid token")

\* authenticate: the bearer token of the request (NoAccess: no such header)
\* is verified and its payload becomes req.user.
AuthenticateResult(token, t) ==
    IF token = NoAccess
    THEN Fail("authenticate", token, "Unauthorized", "Missing authentication token")
    ELSE IF jwtVerify(token, JwtSecret, t)
    THEN Response("authenticate", token, "ok", "ok", token, NoRaw)
    ELSE Fail("authenticate", token, "Unauthorized", "Invalid token")

\* sendEmail(to, subject, text); the text carries the raw token, if any
Mail(to, subject, token) == [to |-> to, subject |-> subject, token |-> token]

NoMail == Mail("-", "-", NoRaw)

\* The verifyPassword calls a request made, the mail it handed to sendEmail
\* and whether the transport delivered it.
Effects(verifications, mail) ==
    [verifications |-> verifications, mail |-> mail, delivered |-> FALSE]

Sent(mail, transportOk) == [verifications |-> 0, mail |-> mail, delivered |-> transportOk]

\* errorHandler: an error that is not an AppError is answered with status 500
Unexpected(op, arg) == Fail(op, arg, "Internal", "Internal server error")

\* Variant: the transport's error is thrown on.
sendEmailRethrow(transportOk) == IF transportOk THEN "resolved" ELSE "rejected"

\* sendEmail: the transport's error is caught and logged; the promise
\* resolves either way.
sendEmail(transportOk) == "resolved"

\* The response of a call whose last await is sendEmail.
AfterSendEmail(outcome, response) ==
    IF outcome = "resolved" THEN response ELSE Unexpected(response.op, response.arg)

NoEffects == Effects(0, NoMail)

\* --------------------------------------------------------- repository
Ids(table) == 1..Len(table)

\* Variant: the lookup skips soft-deleted users.
findUserByEmailNotDeleted(us, email) ==
    IF \E i \in Ids(us) : us[i].email = email /\ us[i].deletedAt = Null
    THEN CHOOSE i \in Ids(us) : us[i].email = email /\ us[i].deletedAt = Null
    ELSE 0

\* prisma.user.findUnique({ where: { email } }): the id, 0 for null
findUserByEmail(us, email) ==
    IF \E i \in Ids(us) : us[i].email = email
    THEN CHOOSE i \in Ids(us) : us[i].email = email
    ELSE 0

\* prisma.user.findUnique({ where: { id } }): the id, 0 for null
findUserById(us, id) == IF id \in Ids(us) THEN id ELSE 0

\* The unique index on users.email: a row with the email can be inserted.
UniqueEmail(us, email) == \A i \in Ids(us) : us[i].email # email

\* tx.user.create + tx.emailVerificationToken.create in one transaction
NewUser(id, name, email, hashedPassword) ==
    [id |-> id, name |-> name, email |-> email, password |-> hashedPassword,
     isActive |-> TRUE, emailVerifiedAt |-> Null, failedLoginAttempts |-> 0,
     lockedUntil |-> Null, lastLoginAt |-> Null, passwordChangedAt |-> Null,
     deletedAt |-> Null]

NewToken(id, userId, tokenHash, expiresAt) ==
    [id |-> id, userId |-> userId, tokenHash |-> tokenHash,
     expiresAt |-> expiresAt, usedAt |-> Null]

createUserUsers(us, name, email, hashedPassword) ==
    Append(us, NewUser(Len(us) + 1, name, email, hashedPassword))

\* Variant: the transaction ends after the user is created.
createUserTokensNone(ets, userId, tokenHash, expiresAt) == ets

createUserTokens(ets, userId, tokenHash, expiresAt) ==
    Append(ets, NewToken(Len(ets) + 1, userId, tokenHash, expiresAt))

\* prisma.user.update({ where: { id }, data }) with failedLoginAttempts and
\* lockedUntil; lastLoginAt is written only when the caller passes it.
\* Variant: the update leaves lockedUntil as it is.
updateUserLoginStatsCountOnly(us, userId, attempts, lockedUntil, lastLoginAt) ==
    [us EXCEPT ![userId] =
        [@ EXCEPT !.failedLoginAttempts = attempts,
                  !.lastLoginAt = IF lastLoginAt = Null THEN @ ELSE lastLoginAt]]

updateUserLoginStats(us, userId, attempts, lockedUntil, lastLoginAt) ==
    [us EXCEPT ![userId] =
        [@ EXCEPT !.failedLoginAttempts = attempts,
                  !.lockedUntil = lockedUntil,
                  !.lastLoginAt = IF lastLoginAt = Null THEN @ ELSE lastLoginAt]]

NewSession(id, userId, refreshTokenHash, expiresAt) ==
    [id |-> id, userId |-> userId, refreshTokenHash |-> refreshTokenHash,
     expiresAt |-> expiresAt, revokedAt |-> Null, deletedAt |-> Null]

\* prisma.userSession.create
createSession(ss, userId, refreshTokenHash, expiresAt) ==
    Append(ss, NewSession(Len(ss) + 1, userId, refreshTokenHash, expiresAt))

\* prisma.userSession.findFirst({ where: { refreshTokenHash, revokedAt: null,
\* deletedAt: null } }): the id, 0 for null
SessionMatches(ss, i, refreshTokenHash) ==
    /\ ss[i].refreshTokenHash = refreshTokenHash
    /\ ss[i].revokedAt = Null
    /\ ss[i].deletedAt = Null

findSessionByHash(ss, refreshTokenHash) ==
    IF \E i \in Ids(ss) : SessionMatches(ss, i, refreshTokenHash)
    THEN CHOOSE i \in Ids(ss) : SessionMatches(ss, i, refreshTokenHash)
    ELSE 0

\* Variant: the update writes nothing.
revokeSessionNothing(ss, sessionId, t) == ss

\* Variant: the update reaches every session of the same user.
revokeSessionOfUser(ss, sessionId, t) ==
    [i \in Ids(ss) |->
        IF ss[i].userId = ss[sessionId].userId THEN [ss[i] EXCEPT !.revokedAt = t] ELSE ss[i]]

\* prisma.userSession.update({ where: { id }, data: { revokedAt: new Date() } })
revokeSession(ss, sessionId, t) ==
    [ss EXCEPT ![sessionId] = [@ EXCEPT !.revokedAt = t]]

\* Variant: the new session is created and the old one is left as it is.
rotateSessionKeepOld(ss, oldSessionId, userId, refreshTokenHash, expiresAt, t) ==
    createSession(ss, userId, refreshTokenHash, expiresAt)

\* transaction: revoke the old session (unconditionally), create the new one
rotateSession(ss, oldSessionId, userId, refreshTokenHash, expiresAt, t) ==
    createSession(revokeSession(ss, oldSessionId, t), userId, refreshTokenHash, expiresAt)


\* transaction: user.update(password, passwordChangedAt, failedLoginAttempts: 0,
\* lockedUntil: null)
resetPasswordUsers(us, userId, newHashedPassword, t) ==
    [us EXCEPT ![userId] =
        [@ EXCEPT !.password = newHashedPassword, !.passwordChangedAt = t,
                  !.failedLoginAttempts = 0, !.lockedUntil = Null]]

\* ... passwordResetToken.update({ where: { id: tokenId }, data: { usedAt } })
\* Variant: every token of the same user is marked.
markUsedAllOfUser(ts, tokenId, t) ==
    [k \in Ids(ts) |-> IF ts[k].userId = ts[tokenId].userId
                       THEN [ts[k] EXCEPT !.usedAt = t]
                       ELSE ts[k]]

markUsed(ts, tokenId, t) ==
    [ts EXCEPT ![tokenId] = [@ EXCEPT !.usedAt = t]]

\* Variant: the transaction leaves the sessions alone.
revokeNoSessions(ss, userId, t) == ss

\* ... userSession.updateMany({ where: { userId, revokedAt: null },
\* data: { revokedAt } })
revokeAllSessions(ss, userId, t) ==
    [i \in Ids(ss) |->
        IF ss[i].userId = userId /\ ss[i].revokedAt = Null
        THEN [ss[i] EXCEPT !.revokedAt = t]
        ELSE ss[i]]

\* transaction: user.update({ emailVerifiedAt })
verifyEmailUsers(us, userId, t) ==
    [us EXCEPT ![userId] = [@ EXCEPT !.emailVerifiedAt = t]]

\* findUnique({ where: { tokenHash } }): the id, 0 for null
findTokenByHash(ts, tokenHash) ==
    IF \E i \in Ids(ts) : ts[i].tokenHash = tokenHash
    THEN CHOOSE i \in Ids(ts) : ts[i].tokenHash = tokenHash
    ELSE 0

\* Variant: the record replaces the user's earlier ones.
createPasswordResetTokenReplacing(ts, userId, tokenHash, expiresAt) ==
    Append([k \in Ids(ts) |-> IF ts[k].userId = userId
                               THEN [ts[k] EXCEPT !.usedAt = ts[k].expiresAt]
                               ELSE ts[k]],
           NewToken(Len(ts) + 1, userId, tokenHash, expiresAt))

\* prisma.passwordResetToken.create
createPasswordResetToken(ts, userId, tokenHash, expiresAt) ==
    Append(ts, NewToken(Len(ts) + 1, userId, tokenHash, expiresAt))

\* ------------------------------------------------------------ service
NoUser == NewUser(0, "-", "-", NullPassword)

\* The user record a lookup returned (NoUser for null).
UserOrNone(us, id) == IF id = 0 THEN NoUser ELSE us[id]

\* getProfile: the user record without its password hash
Profile(user) == [f \in DOMAIN user \ {"password"} |-> user[f]]

ProfileResponse(userId, profile) ==
    [op |-> "getProfile", arg |-> userId, kind |-> "ok", msg |-> "ok",
     accessToken |-> NoAccess, refreshToken |-> NoRaw, profile |-> profile]

\* login: the checks made on the user record that was read, in the order the
\* service makes them; t is the clock when the checks run.
LoginVerdict(user, password, t) ==
    LET targetHash == IF user.id # 0 /\ user.password # NullPassword
                      THEN user.password ELSE DUMMY_HASH
        isValidPassword == verifyPassword(password, targetHash)
    IN  IF ~isValidPassword \/ user.id = 0 THEN
            IF user.id # 0 THEN "wrongPassword" ELSE "noUser"
        ELSE IF user.deletedAt # Null THEN "deleted"
        ELSE IF ~user.isActive THEN "inactive"
        ELSE IF user.lockedUntil # Null /\ isAfter(user.lockedUntil, t) THEN "locked"
        ELSE "pass"

\* login: the counters written after a failed password verification
\* Variant: the count starts again after a lock.
FailedAttemptsRestart(user) ==
    IF user.lockedUntil # Null THEN 1 ELSE user.failedLoginAttempts + 1

FailedAttempts(user) == user.failedLoginAttempts + 1

\* Variant: the lock is set one attempt later.
FailedLockedUntilLate(user, t) ==
    IF FailedAttempts(user) > maxLoginAttempts
    THEN addMinutes(t, lockDurationMinutes)
    ELSE Null

FailedLockedUntil(user, t) ==
    IF FailedAttempts(user) >= maxLoginAttempts
    THEN addMinutes(t, lockDurationMinutes)
    ELSE Null

\* login: wrong-password logins completed since the counter was last reset
LoginMisses(ms, user, verdict) ==
    CASE verdict = "wrongPassword" -> [ms EXCEPT ![user.id] = @ + 1]
      [] verdict = "pass" -> [ms EXCEPT ![user.id] = 0]
      [] OTHER -> ms

\* login: the credential of a session created by a password, with the number
\* of one-time tokens consumed when the user record was read
ByPassword(epoch) == [use |-> "password", n |-> epoch]

\* Variant: a soft-deleted account is reported as disabled.
LoginFailureDisabled(verdict, email) ==
    CASE verdict = "inactive" -> Fail("login", email, "Forbidden", "Account is inactive")
      [] verdict = "locked" -> Fail("login", email, "Forbidden", "Account locked")
      [] verdict = "deleted" -> Fail("login", email, "Forbidden", "Account is disabled")
      [] OTHER -> Fail("login", email, "Unauthorized", "Invalid credentials")

\* login: the response of a call that ends without a session
LoginFailure(verdict, email) ==
    CASE verdict = "inactive" -> Fail("login", email, "Forbidden", "Account is inactive")
      [] verdict = "locked" -> Fail("login", email, "Forbidden", "Account locked")
      [] OTHER -> Fail("login", email, "Unauthorized", "Invalid credentials")

\* login: the users table after the call's updateUserLoginStats, if it makes one
\* Variant: a successful login stamps lastLoginAt and keeps the counters.
LoginUsersKeepCounters(us, user, verdict, t) ==
    CASE verdict = "wrongPassword" ->
            updateUserLoginStats(us, user.id, FailedAttempts(user),
                                 FailedLockedUntil(user, t), Null)
      [] verdict = "pass" ->
            updateUserLoginStats(us, user.id, user.failedLoginAttempts,
                                 user.lockedUntil, t)
      [] OTHER -> us

LoginUsers(us, user, verdict, t) ==
    CASE verdict = "wrongPassword" ->
            updateUserLoginStats(us, user.id, FailedAttempts(user),
                                 FailedLockedUntil(user, t), Null)
      [] verdict = "pass" ->
            updateUserLoginStats(us, user.id, 0, Null, t)
      [] OTHER -> us

\* refresh: the checks made on the session that was read
\* Variant: the expiry of the session is not checked.
RefreshVerdictNoExpiry(session, t) ==
    IF session.id = 0 THEN "invalid"
    ELSE IF session.revokedAt # Null \/ session.deletedAt # Null THEN "revoked"
    ELSE "pass"

RefreshVerdict(session, t) ==
    IF session.id = 0 THEN "invalid"
    ELSE IF isAfter(t, session.expiresAt) THEN "expired"
    ELSE IF session.revokedAt # Null \/ session.deletedAt # Null THEN "revoked"
    ELSE "pass"

NoSession == NewSession(0, 0, hashToken(NoRaw), Null)

SessionOrNone(ss, id) == IF id = 0 THEN NoSession ELSE ss[id]

RefreshFailure(verdict, token) ==
    CASE verdict = "invalid" -> Fail("refresh", token, "Unauthorized", "Invalid refresh token")
      [] verdict = "expired" -> Fail("refresh", token, "Unauthorized", "Session expired")
      [] OTHER -> Fail("refresh", token, "Unauthorized", "Session revoked")

\* verifyEmail / resetPassword: the checks made on the token record read
NoToken == NewToken(0, 0, hashToken(NoRaw), Null)

TokenOrNone(ts, id) == IF id = 0 THEN NoToken ELSE ts[id]

\* Variant: the expiry is checked before the use.
VerifyEmailVerdictExpiryFirst(tokenRecord, t) ==
    IF tokenRecord.id = 0 THEN "notFound"
    ELSE IF isAfter(t, tokenRecord.expiresAt) THEN "expired"
    ELSE IF tokenRecord.usedAt # Null THEN "used"
    ELSE "pass"

VerifyEmailVerdict(tokenRecord, t) ==
    IF tokenRecord.id = 0 THEN "notFound"
    ELSE IF tokenRecord.usedAt # Null THEN "used"
    ELSE IF isAfter(t, tokenRecord.expiresAt) THEN "expired"
    ELSE "pass"

\* Variant: only the expiry is checked.
ResetPasswordVerdictExpiryOnly(tokenRecord, t) ==
    IF tokenRecord.id = 0 THEN "notFound"
    ELSE IF isAfter(t, tokenRecord.expiresAt) THEN "invalid"
    ELSE "pass"

ResetPasswordVerdict(tokenRecord, t) ==
    IF tokenRecord.id = 0 THEN "notFound"
    ELSE IF tokenRecord.usedAt # Null \/ isAfter(t, tokenRecord.expiresAt) THEN "invalid"
    ELSE "pass"




\* ------------------------------------------------------------ requests
\* Raw tokens a client can present for a use: every token generated so far
\* and one that was never generated.
RawTokens(use, table) == {[use |-> use, n |-> n] : n \in 1..(Len(table) + 1)}

\* The same over a whole table of at most max rows.
AllRawTokens(use, max) == {[use |-> use, n |-> n] : n \in 1..(max + 1)}

\* Bearer tokens a client can present: the access tokens issued so far, the
\* same payloads signed with another key, and no token at all.
Forged(token) == [token EXCEPT !.sig = "forged"]

BearerTokens == issued \cup {Forged(token) : token \in issued} \cup {NoAccess}

AllBearerTokens ==
    [userId : 1..MaxUsers, sessionId : 1..MaxSessions, role : {"user"},
     exp : 0..(MaxTime + accessExpiration), sig : {JwtSecret, "forged"}]
       \cup {NoAccess}

NoRequest == [p \in Procs |-> Idle]

Init ==
    /\ users = <<>>
    /\ sessions = <<>>
    /\ emailTokens = <<>>
    /\ resetTokens = <<>>
    /\ now = 0
    /\ last = Idle
    /\ effects = NoEffects
    /\ pend = NoRequest
    /\ chain = <<>>
    /\ origin = <<>>
    /\ spent = {}
    /\ voided = {}
    /\ issued = {}
    /\ consumed = <<>>
    /\ misses = <<>>
    /\ steps = 0

\* Every step counts towards the bound on the length of a run.
Step == steps < MaxSteps /\ steps' = steps + 1

\* register(input), the whole call
Register(name, email, password) ==
    LET existingUser == findUserByEmail(users, email)
        verificationToken == generateRandomToken("verify", Len(emailTokens))
    IN  /\ Step
        /\ IF existingUser # 0 THEN
              /\ last' = Fail("register", email, "Conflict", "Email already registered")
              /\ effects' = NoEffects
              /\ UNCHANGED <<users, emailTokens, misses>>
           ELSE
              /\ Len(users) < MaxUsers
              /\ users' = createUserUsers(users, name, email, hashPassword(password))
              /\ emailTokens' = createUserTokens(emailTokens, Len(users) + 1,
                                    hashToken(verificationToken),
                                    addMinutes(now, emailTokenExpiresMinutes))
              /\ misses' = Append(misses, 0)
              /\ \E transportOk \in BOOLEAN :
                    /\ effects' = Sent(Mail(email, "Verify your email", verificationToken),
                                       transportOk)
                    /\ last' = AfterSendEmail(sendEmail(transportOk), Ok("register", email))
        /\ UNCHANGED <<sessions, resetTokens, now, pend, chain, origin, spent, voided,
                       issued, consumed>>

\* login(input), the whole call
Login(email, password) ==
    LET user == UserOrNone(users, findUserByEmail(users, email))
        verdict == LoginVerdict(user, password, now)
        refreshToken == generateRandomToken("refresh", Len(sessions))
        sessionId == Len(sessions) + 1
        accessToken == generateAccessToken(user.id, sessionId, now)
    IN  /\ Step
        /\ verdict = "wrongPassword" => user.failedLoginAttempts < MaxAttempts
        /\ users' = LoginUsers(users, user, verdict, now)
        /\ misses' = LoginMisses(misses, user, verdict)
        /\ IF verdict = "pass" THEN
              /\ Len(sessions) < MaxSessions
              /\ sessions' = createSession(sessions, user.id, hashToken(refreshToken),
                                           addDays(now, refreshTokenExpiresDays))
              /\ chain' = Append(chain, sessionId)
              /\ origin' = Append(origin, ByPassword(Len(consumed)))
              /\ issued' = issued \cup {accessToken}
              /\ last' = Response("login", email, "ok", "ok", accessToken, refreshToken)
           ELSE
              /\ last' = LoginFailure(verdict, email)
              /\ UNCHANGED <<sessions, chain, origin, issued>>
        /\ effects' = Effects(1, NoMail)
        /\ UNCHANGED <<emailTokens, resetTokens, now, pend, spent, voided, consumed>>

\* refresh(input), the whole call
Refresh(token) ==
    LET session == SessionOrNone(sessions, findSessionByHash(sessions, hashToken(token)))
        verdict == RefreshVerdict(session, now)
        newRefreshToken == generateRandomToken("refresh", Len(sessions))
        newId == Len(sessions) + 1
        accessToken == generateAccessToken(session.userId, newId, now)
    IN  /\ Step
        /\ token \in RawTokens("refresh", sessions)
        /\ IF verdict = "pass" THEN
              /\ Len(sessions) < MaxSessions
              /\ sessions' = rotateSession(sessions, session.id, session.userId,
                                           hashToken(newRefreshToken),
                                           addDays(now, refreshTokenExpiresDays), now)
              /\ chain' = Append(chain, chain[session.id])
              /\ origin' = Append(origin, token)
              /\ spent' = spent \cup {token}
              /\ issued' = issued \cup {accessToken}
              /\ last' = Response("refresh", token, "ok", "ok", accessToken, newRefreshToken)
           ELSE
              /\ last' = RefreshFailure(verdict, token)
              /\ UNCHANGED <<sessions, chain, origin, spent, issued>>
        /\ effects' = NoEffects
        /\ UNCHANGED <<users, emailTokens, resetTokens, now, pend, voided, consumed, misses>>

\* authenticate(req, res, next): the middleware in front of logout and me
Authenticate(token) ==
    /\ Step
    /\ token \in BearerTokens
    /\ last' = AuthenticateResult(token, now)
    /\ effects' = NoEffects
    /\ UNCHANGED <<users, sessions, emailTokens, resetTokens, now, pend, chain, origin,
                   spent, voided, issued, consumed, misses>>

\* logout(encodedUser): the session id comes from a verified access token
Logout(sessionId) ==
    /\ Step
    /\ sessionId \in Ids(sessions)
    /\ sessions' = revokeSession(sessions, sessionId, now)
    /\ last' = Ok("logout", sessionId)
    /\ effects' = NoEffects
    /\ UNCHANGED <<users, emailTokens, resetTokens, now, pend, chain, origin, spent, voided,
                   issued, consumed, misses>>

\* getProfile(userId)
GetProfile(userId) ==
    LET user == UserOrNone(users, findUserById(users, userId))
    IN  /\ Step
        /\ last' = IF user.id = 0
                   THEN Fail("getProfile", userId, "NotFound", "User not found")
                   ELSE ProfileResponse(userId, Profile(user))
        /\ effects' = NoEffects
        /\ UNCHANGED <<users, sessions, emailTokens, resetTokens, now, pend, chain, origin,
                       spent, voided, issued, consumed, misses>>

VerifyEmailFailure(verdict, token) ==
    CASE verdict = "notFound" ->
            Fail("verifyEmail", token, "NotFound", "Invalid verification token")
      [] verdict = "used" -> Fail("verifyEmail", token, "Validation", "Token already used")
      [] OTHER -> Fail("verifyEmail", token, "Validation", "Token expired")

\* verifyEmail(input), the whole call
VerifyEmail(token) ==
    LET tokenRecord == TokenOrNone(emailTokens, findTokenByHash(emailTokens, hashToken(token)))
        verdict == VerifyEmailVerdict(tokenRecord, now)
    IN  /\ Step
        /\ token \in RawTokens("verify", emailTokens)
        /\ IF verdict = "pass" THEN
              /\ users' = verifyEmailUsers(users, tokenRecord.userId, now)
              /\ emailTokens' = markUsed(emailTokens, tokenRecord.id, now)
              /\ consumed' = Append(consumed, token)
              /\ last' = Ok("verifyEmail", token)
           ELSE
              /\ last' = VerifyEmailFailure(verdict, token)
              /\ UNCHANGED <<users, emailTokens, consumed>>
        /\ effects' = NoEffects
        /\ UNCHANGED <<sessions, resetTokens, now, pend, chain, origin, spent, voided,
                       issued, misses>>

\* forgotPassword(input)
ForgotPassword(email) ==
    LET user == UserOrNone(users, findUserByEmail(users, email))
        token == generateRandomToken("reset", Len(resetTokens))
    IN  /\ Step
        /\ IF user.id = 0 THEN
              /\ effects' = Effects(1, NoMail)
              /\ last' = Ok("forgotPassword", email)
              /\ UNCHANGED resetTokens
           ELSE
              /\ Len(resetTokens) < MaxResetTokens
              /\ resetTokens' = createPasswordResetToken(resetTokens, user.id,
                                    hashToken(token),
                                    addMinutes(now, passwordResetTokenExpiresMinutes))
              /\ \E transportOk \in BOOLEAN :
                    /\ effects' = Sent(Mail(user.email, "Reset your password", token),
                                       transportOk)
                    /\ last' = AfterSendEmail(sendEmail(transportOk),
                                              Ok("forgotPassword", email))
        /\ UNCHANGED <<users, sessions, emailTokens, now, pend, chain, origin, spent, voided,
                       issued, consumed, misses>>

ResetPasswordFailure(verdict, token) ==
    IF verdict = "notFound"
    THEN Fail("resetPassword", token, "NotFound", "Invalid or expired reset token")
    ELSE Fail("resetPassword", token, "Validation", "Invalid or expired reset token")

\* The refresh tokens issued to a user so far.
IssuedTo(userId) ==
    {t \in RawTokens("refresh", sessions) :
        \E j \in Ids(sessions) : /\ sessions[j].userId = userId
                                 /\ sessions[j].refreshTokenHash = hashToken(t)}

\* resetPassword(input), the whole call
ResetPassword(token, password) ==
    LET tokenRecord == TokenOrNone(resetTokens, findTokenByHash(resetTokens, hashToken(token)))
        verdict == ResetPasswordVerdict(tokenRecord, now)
    IN  /\ Step
        /\ token \in RawTokens("reset", resetTokens)
        /\ IF verdict = "pass" THEN
              /\ users' = resetPasswordUsers(users, tokenRecord.userId,
                                             hashPassword(password), now)
              /\ resetTokens' = markUsed(resetTokens, tokenRecord.id, now)
              /\ sessions' = revokeAllSessions(sessions, tokenRecord.userId, now)
              /\ voided' = voided \cup IssuedTo(tokenRecord.userId)
              /\ consumed' = Append(consumed, token)
              /\ misses' = [misses EXCEPT ![tokenRecord.userId] = 0]
              /\ \E transportOk \in BOOLEAN :
                    /\ effects' = Sent(Mail(users[tokenRecord.userId].email,
                                            "Password Changed", NoRaw), transportOk)
                    /\ last' = AfterSendEmail(sendEmail(transportOk),
                                              Ok("resetPassword", token))
           ELSE
              /\ last' = ResetPasswordFailure(verdict, token)
              /\ effects' = NoEffects
              /\ UNCHANGED <<users, resetTokens, sessions, voided, consumed, misses>>
        /\ UNCHANGED <<emailTokens, now, pend, chain, origin, spent, issued>>

\* Time passes.
Tick ==
    /\ Step
    /\ now < MaxTime
    /\ now' = now + 1
    /\ UNCHANGED <<users, sessions, emailTokens, resetTokens, last, effects, pend, chain,
                   origin, spent, voided, issued, consumed, misses>>

\* The user record is also written outside this subsystem: an account is
\* deactivated, soft-deleted, or kept without a password (OAuth only).
AdminChanges == {"deactivate", "softDelete", "clearPassword"}

Flags(user) ==
    (IF user.isActive THEN 0 ELSE 1) + (IF user.deletedAt = Null THEN 0 ELSE 1)
        + (IF user.password = NullPassword THEN 1 ELSE 0)

RECURSIVE AdminCount(_, _)
AdminCount(us, n) == IF n = 0 THEN 0 ELSE Flags(us[n]) + AdminCount(us, n - 1)

AdminUpdateUser(userId, change) ==
    /\ Step
    /\ userId \in Ids(users)
    /\ AdminCount(users, Len(users)) < MaxAdminChanges
    /\ users' = [users EXCEPT ![userId] =
                    CASE change = "deactivate" -> [@ EXCEPT !.isActive = FALSE]
                      [] change = "softDelete" -> [@ EXCEPT !.deletedAt = now]
                      [] OTHER -> [@ EXCEPT !.password = NullPassword]]
    /\ users' # users
    /\ last' = Idle
    /\ effects' = NoEffects
    /\ UNCHANGED <<sessions, emailTokens, resetTokens, now, pend, chain, origin, spent,
                   voided, issued, consumed, misses>>

Next ==
    \/ \E name \in Names, email \in Emails, password \in Passwords :
          Register(name, email, password)
    \/ \E email \in Emails, password \in Passwords : Login(email, password)
    \/ \E token \in AllRawTokens("refresh", MaxSessions) : Refresh(token)
    \/ \E token \in AllBearerTokens : Authenticate(token)
    \/ \E sessionId \in 1..MaxSessions : Logout(sessionId)
    \/ \E userId \in 1..MaxUsers : GetProfile(userId)
    \/ \E token \in AllRawTokens("verify", MaxUsers) : VerifyEmail(token)
    \/ \E email \in Emails : ForgotPassword(email)
    \/ \E token \in AllRawTokens("reset", MaxResetTokens), password \in Passwords :
          ResetPassword(token, password)
    \/ \E userId \in 1..MaxUsers, change \in AdminChanges : AdminUpdateUser(userId, change)
    \/ Tick

Spec == Init /\ [][Next]_vars

TypeOK ==
    /\ Len(users) <= MaxUsers
    /\ Len(sessions) <= MaxSessions
    /\ Len(chain) = Len(sessions)
    /\ Len(origin) = Len(sessions)
    /\ Len(misses) = Len(users)
    /\ now \in 0..MaxTime


\* ------------------------------------------------- interleaved calls
\* A call is suspended at every awaited datastore round trip, and other
\* calls run in between.  The calls in flight are interchangeable: a new call
\* takes slot 2 only while slot 1 is taken.
FreeSlot(p) == pend[p] = Idle /\ (p = 1 \/ pend[1] # Idle)

\* refresh: the session is read ...
RefreshFind(p, token) ==
    /\ Step
    /\ FreeSlot(p)
    /\ token \in RawTokens("refresh", sessions)
    /\ pend' = [pend EXCEPT ![p] =
                  [op |-> "refresh", token |-> token,
                   session |-> SessionOrNone(sessions,
                                  findSessionByHash(sessions, hashToken(token)))]]
    /\ UNCHANGED <<users, sessions, emailTokens, resetTokens, now, last, effects, chain,
                   origin, spent, voided, issued, consumed, misses>>

\* ... and later checked and rotated, by the record that was read.
RefreshRotate(p) ==
    /\ Step
    /\ pend[p] # Idle
    /\ pend[p].op = "refresh"
    /\ LET session == pend[p].session
           token == pend[p].token
           verdict == RefreshVerdict(session, now)
           newRefreshToken == generateRandomToken("refresh", Len(sessions))
           newId == Len(sessions) + 1
           accessToken == generateAccessToken(session.userId, newId, now)
       IN  IF verdict = "pass" THEN
              /\ Len(sessions) < MaxSessions
              /\ sessions' = rotateSession(sessions, session.id, session.userId,
                                           hashToken(newRefreshToken),
                                           addDays(now, refreshTokenExpiresDays), now)
              /\ chain' = Append(chain, chain[session.id])
              /\ origin' = Append(origin, token)
              /\ spent' = spent \cup {token}
              /\ issued' = issued \cup {accessToken}
              /\ last' = Response("refresh", token, "ok", "ok", accessToken,
                                  newRefreshToken)
           ELSE
              /\ last' = RefreshFailure(verdict, token)
              /\ UNCHANGED <<sessions, chain, origin, spent, issued>>
    /\ pend' = [pend EXCEPT ![p] = Idle]
    /\ effects' = NoEffects
    /\ UNCHANGED <<users, emailTokens, resetTokens, now, voided, consumed, misses>>

\* verifyEmail: the token record is read and checked; a call that passes the
\* checks goes on to the transaction ...
VerifyEmailFind(p, token) ==
    LET tokenRecord == TokenOrNone(emailTokens, findTokenByHash(emailTokens, hashToken(token)))
        verdict == VerifyEmailVerdict(tokenRecord, now)
    IN  /\ Step
        /\ FreeSlot(p)
        /\ token \in RawTokens("verify", emailTokens)
        /\ IF verdict = "pass" THEN
              /\ pend' = [pend EXCEPT ![p] =
                            [op |-> "verifyEmail", token |-> token,
                             tokenRecord |-> tokenRecord]]
              /\ UNCHANGED <<last, effects>>
           ELSE
              /\ last' = VerifyEmailFailure(verdict, token)
              /\ effects' = NoEffects
              /\ UNCHANGED pend
        /\ UNCHANGED <<users, sessions, emailTokens, resetTokens, now, chain, origin, spent,
                       voided, issued, consumed, misses>>

\* ... which writes by the ids of the record that was read.
VerifyEmailCommit(p) ==
    /\ Step
    /\ pend[p] # Idle
    /\ pend[p].op = "verifyEmail"
    /\ users' = verifyEmailUsers(users, pend[p].tokenRecord.userId, now)
    /\ emailTokens' = markUsed(emailTokens, pend[p].tokenRecord.id, now)
    /\ consumed' = Append(consumed, pend[p].token)
    /\ last' = Ok("verifyEmail", pend[p].token)
    /\ effects' = NoEffects
    /\ pend' = [pend EXCEPT ![p] = Idle]
    /\ UNCHANGED <<sessions, resetTokens, now, chain, origin, spent, voided, issued, misses>>

\* resetPassword: the token record is read and checked ...
ResetPasswordFind(p, token, password) ==
    LET tokenRecord == TokenOrNone(resetTokens, findTokenByHash(resetTokens, hashToken(token)))
        verdict == ResetPasswordVerdict(tokenRecord, now)
    IN  /\ Step
        /\ FreeSlot(p)
        /\ token \in RawTokens("reset", resetTokens)
        /\ IF verdict = "pass" THEN
              /\ pend' = [pend EXCEPT ![p] =
                            [op |-> "resetPassword", token |-> token,
                             password |-> password, tokenRecord |-> tokenRecord]]
              /\ UNCHANGED <<last, effects>>
           ELSE
              /\ last' = ResetPasswordFailure(verdict, token)
              /\ effects' = NoEffects
              /\ UNCHANGED pend
        /\ UNCHANGED <<users, sessions, emailTokens, resetTokens, now, chain, origin, spent,
                       voided, issued, consumed, misses>>

\* ... and the transaction runs after the new password was hashed.
ResetPasswordCommit(p) ==
    /\ Step
    /\ pend[p] # Idle
    /\ pend[p].op = "resetPassword"
    /\ LET tokenRecord == pend[p].tokenRecord
       IN  /\ users' = resetPasswordUsers(users, tokenRecord.userId,
                                          hashPassword(pend[p].password), now)
           /\ resetTokens' = markUsed(resetTokens, tokenRecord.id, now)
           /\ sessions' = revokeAllSessions(sessions, tokenRecord.userId, now)
           /\ voided' = voided \cup IssuedTo(tokenRecord.userId)
           /\ misses' = [misses EXCEPT ![tokenRecord.userId] = 0]
           /\ \E transportOk \in BOOLEAN :
                 /\ effects' = Sent(Mail(users[tokenRecord.userId].email,
                                         "Password Changed", NoRaw), transportOk)
                 /\ last' = AfterSendEmail(sendEmail(transportOk),
                                           Ok("resetPassword", pend[p].token))
    /\ consumed' = Append(consumed, pend[p].token)
    /\ pend' = [pend EXCEPT ![p] = Idle]
    /\ UNCHANGED <<emailTokens, now, chain, origin, spent, issued>>

\* register: the email is looked up ...
RegisterFind(p, name, email, password) ==
    /\ Step
    /\ FreeSlot(p)
    /\ IF findUserByEmail(users, email) # 0 THEN
          /\ last' = Fail("register", email, "Conflict", "Email already registered")
          /\ effects' = NoEffects
          /\ UNCHANGED pend
       ELSE
          /\ pend' = [pend EXCEPT ![p] =
                        [op |-> "register", name |-> name, email |-> email,
                         password |-> password]]
          /\ UNCHANGED <<last, effects>>
    /\ UNCHANGED <<users, sessions, emailTokens, resetTokens, now, chain, origin, spent,
                   voided, issued, consumed, misses>>

\* ... and the createUser transaction runs after the password was hashed; the
\* unique index on users.email rejects a second row with the email.
RegisterCreate(p) ==
    /\ Step
    /\ pend[p] # Idle
    /\ pend[p].op = "register"
    /\ LET email == pend[p].email
           verificationToken == generateRandomToken("verify", Len(emailTokens))
       IN  IF ~UniqueEmail(users, email) THEN
              /\ last' = Unexpected("register", email)
              /\ effects' = NoEffects
              /\ UNCHANGED <<users, emailTokens, misses>>
           ELSE
              /\ Len(users) < MaxUsers
              /\ users' = createUserUsers(users, pend[p].name, email,
                                          hashPassword(pend[p].password))
              /\ emailTokens' = createUserTokens(emailTokens, Len(users) + 1,
                                    hashToken(verificationToken),
                                    addMinutes(now, emailTokenExpiresMinutes))
              /\ misses' = Append(misses, 0)
              /\ \E transportOk \in BOOLEAN :
                    /\ effects' = Sent(Mail(email, "Verify your email", verificationToken),
                                       transportOk)
                    /\ last' = AfterSendEmail(sendEmail(transportOk), Ok("register", email))
    /\ pend' = [pend EXCEPT ![p] = Idle]
    /\ UNCHANGED <<sessions, resetTokens, now, chain, origin, spent, voided, issued,
                   consumed>>

\* login: the user is read ...
LoginFind(p, email, password) ==
    /\ Step
    /\ FreeSlot(p)
    /\ pend' = [pend EXCEPT ![p] =
                  [op |-> "login", email |-> email, password |-> password,
                   user |-> UserOrNone(users, findUserByEmail(users, email)),
                   epoch |-> Len(consumed)]]
    /\ UNCHANGED <<users, sessions, emailTokens, resetTokens, now, last, effects, chain,
                   origin, spent, voided, issued, consumed, misses>>

\* ... the password is verified against the record that was read, the checks
\* are made and the login statistics are written from that record ...
LoginStats(p) ==
    /\ Step
    /\ pend[p] # Idle
    /\ pend[p].op = "login"
    /\ LET user == pend[p].user
           verdict == LoginVerdict(user, pend[p].password, now)
       IN  /\ verdict = "wrongPassword" => user.failedLoginAttempts < MaxAttempts
           /\ users' = LoginUsers(users, user, verdict, now)
           /\ misses' = LoginMisses(misses, user, verdict)
           /\ IF verdict = "pass" THEN
                 /\ pend' = [pend EXCEPT ![p] = [@ EXCEPT !.op = "createSession"]]
                 /\ UNCHANGED last
              ELSE
                 /\ last' = LoginFailure(verdict, pend[p].email)
                 /\ pend' = [pend EXCEPT ![p] = Idle]
    /\ effects' = Effects(1, NoMail)
    /\ UNCHANGED <<sessions, emailTokens, resetTokens, now, chain, origin, spent, voided,
                   issued, consumed>>

\* ... and the session is created.
LoginSession(p) ==
    /\ Step
    /\ pend[p] # Idle
    /\ pend[p].op = "createSession"
    /\ Len(sessions) < MaxSessions
    /\ LET userId == pend[p].user.id
           refreshToken == generateRandomToken("refresh", Len(sessions))
           sessionId == Len(sessions) + 1
           accessToken == generateAccessToken(userId, sessionId, now)
       IN  /\ sessions' = createSession(sessions, userId, hashToken(refreshToken),
                                        addDays(now, refreshTokenExpiresDays))
           /\ chain' = Append(chain, sessionId)
           /\ origin' = Append(origin, ByPassword(pend[p].epoch))
           /\ issued' = issued \cup {accessToken}
           /\ last' = Response("login", pend[p].email, "ok", "ok", accessToken, refreshToken)
    /\ pend' = [pend EXCEPT ![p] = Idle]
    /\ effects' = Effects(1, NoMail)
    /\ UNCHANGED <<users, emailTokens, resetTokens, now, spent, voided, consumed, misses>>

\* The calls that write, with refresh, verifyEmail and resetPassword suspended
\* at their awaits; authenticate and getProfile write nothing and see one
\* state of the datastore.
NextConc ==
    \/ \E name \in Names, email \in Emails, password \in Passwords :
          Register(name, email, password)
    \/ \E email \in Emails, password \in Passwords : Login(email, password)
    \/ \E p \in Procs, token \in AllRawTokens("refresh", MaxSessions) : RefreshFind(p, token)
    \/ \E p \in Procs : RefreshRotate(p)
    \/ \E sessionId \in 1..MaxSessions : Logout(sessionId)
    \/ \E p \in Procs, token \in AllRawTokens("verify", MaxUsers) : VerifyEmailFind(p, token)
    \/ \E p \in Procs : VerifyEmailCommit(p)
    \/ \E email \in Emails : ForgotPassword(email)
    \/ \E p \in Procs, token \in AllRawTokens("reset", MaxResetTokens),
          password \in Passwords : ResetPasswordFind(p, token, password)
    \/ \E p \in Procs : ResetPasswordCommit(p)
    \/ \E userId \in 1..MaxUsers, change \in AdminChanges : AdminUpdateUser(userId, change)
    \/ Tick

SpecConc == Init /\ [][NextConc]_vars

\* The calls of register, login, refresh, logout, forgotPassword and
\* resetPassword, with login suspended at its awaits and register whole or
\* suspended.
NextRace ==
    \/ \E name \in Names, email \in Emails, password \in Passwords :
          Register(name, email, password)
    \/ \E p \in Procs, name \in Names, email \in Emails, password \in Passwords :
          RegisterFind(p, name, email, password)
    \/ \E p \in Procs : RegisterCreate(p)
    \/ \E p \in Procs, email \in Emails, password \in Passwords : LoginFind(p, email, password)
    \/ \E p \in Procs : LoginStats(p)
    \/ \E p \in Procs : LoginSession(p)
    \/ \E token \in AllRawTokens("refresh", MaxSessions) : Refresh(token)
    \/ \E sessionId \in 1..MaxSessions : Logout(sessionId)
    \/ \E email \in Emails : ForgotPassword(email)
    \/ \E token \in AllRawTokens("reset", MaxResetTokens), password \in Passwords :
          ResetPassword(token, password)
    \/ Tick

SpecRace == Init /\ [][NextRace]_vars

\* ------------------------------------------------------------ properties
HasEmail(us, email) == \E i \in Ids(us) : us[i].email = email

UserWith(us, email) == CHOOSE i \in Ids(us) : us[i].email = email

SessionsOf(ss, userId) == {i \in Ids(ss) : ss[i].userId = userId}

LiveSessionsOf(ss, userId) == {i \in SessionsOf(ss, userId) : ss[i].revokedAt = Null}

\* The record of a user as registration leaves it, with that password.
JustRegistered(user, password) ==
    /\ verifyPassword(password, user.password)
    /\ user.isActive
    /\ user.deletedAt = Null
    /\ user.failedLoginAttempts = 0
    /\ user.lockedUntil = Null

\* C1: register with an unregistered email creates the user, and a login of
\* that user with the same email and password succeeds: it returns an access
\* token and a refresh token, and leaves exactly one non-revoked session of
\* the user, which stores the hash of the returned refresh token and not the
\* token itself.
C1_RegisterThenLogin ==
    [][\A email \in Emails, password \in Passwords :
         /\ (~HasEmail(users, email) /\ \E name \in Names : Register(name, email, password))
              => /\ last'.kind = "ok"
                 /\ HasEmail(users', email)
                 /\ JustRegistered(users'[UserWith(users', email)], password)
                 /\ SessionsOf(sessions', UserWith(users', email)) = {}
         /\ (/\ HasEmail(users, email)
             /\ JustRegistered(users[UserWith(users, email)], password)
             /\ SessionsOf(sessions, UserWith(users, email)) = {}
             /\ Login(email, password))
              => LET u == UserWith(users, email)
                     live == LiveSessionsOf(sessions', u)
                 IN  /\ last'.kind = "ok"
                     /\ last'.accessToken # NoAccess
                     /\ last'.refreshToken # NoRaw
                     /\ Cardinality(live) = 1
                     /\ \A i \in live :
                          /\ sessions'[i].refreshTokenHash = hashToken(last'.refreshToken)
                          /\ sessions'[i].refreshTokenHash # last'.refreshToken
    ]_vars

C1_Witness ==
    /\ last.op = "login"
    /\ last.kind = "ok"
    /\ HasEmail(users, last.arg)
    /\ LET u == UserWith(users, last.arg)
       IN  /\ Cardinality(SessionsOf(sessions, u)) = 1
           /\ LiveSessionsOf(sessions, u) = {last.accessToken.sessionId}
           /\ sessions[last.accessToken.sessionId].refreshTokenHash
                = hashToken(last.refreshToken)
           /\ users[u].emailVerifiedAt = Null
           /\ users[u].passwordChangedAt = Null

Eligible(user) == user.isActive /\ user.deletedAt = Null

HasPassword(user) == user.password # NullPassword

Locked(user, t) == user.lockedUntil # Null /\ isAfter(user.lockedUntil, t)

\* C3: the login with a wrong password that brings the count of an active,
\* unlocked user to maxLoginAttempts fails and sets lockedUntil to a time in
\* the future, and every login of that user made before that time, whatever
\* its password, fails with Forbidden and creates no session.
C3_LockoutAfterMaxAttempts ==
    [][\A email \in Emails, password \in Passwords :
         (HasEmail(users, email) /\ Login(email, password))
            => LET u == UserWith(users, email)
               IN  /\ (/\ Eligible(users[u])
                       /\ HasPassword(users[u])
                       /\ ~Locked(users[u], now)
                       /\ users[u].failedLoginAttempts = maxLoginAttempts - 1
                       /\ ~verifyPassword(password, users[u].password))
                        => /\ last'.kind # "ok"
                           /\ Locked(users'[u], now)
                   /\ (/\ Eligible(users[u])
                       /\ HasPassword(users[u])
                       /\ users[u].failedLoginAttempts >= maxLoginAttempts
                       /\ Locked(users[u], now))
                        => /\ last'.kind = "Forbidden"
                           /\ sessions' = sessions
    ]_vars

\* C4: a login of a user whose lockedUntil is in the future fails with
\* Forbidden (account locked) whatever the password, and leaves
\* failedLoginAttempts and lockedUntil as they were.
C4_LockCheckedBeforePassword ==
    [][\A email \in Emails, password \in Passwords :
         (/\ HasEmail(users, email)
          /\ Eligible(users[UserWith(users, email)])
          /\ HasPassword(users[UserWith(users, email)])
          /\ Locked(users[UserWith(users, email)], now)
          /\ Login(email, password))
            => LET u == UserWith(users, email)
               IN  /\ last'.kind = "Forbidden"
                   /\ last'.msg = "Account locked"
                   /\ users'[u].failedLoginAttempts = users[u].failedLoginAttempts
                   /\ users'[u].lockedUntil = users[u].lockedUntil
    ]_vars

\* The session of a table that a refresh with that token rotates, if any.
Presentable(ss, token, t) ==
    {i \in Ids(ss) : /\ ss[i].refreshTokenHash = hashToken(token)
                     /\ ss[i].revokedAt = Null
                     /\ ss[i].deletedAt = Null
                     /\ ~isAfter(t, ss[i].expiresAt)}

\* C5: a refresh with the token of a non-revoked, unexpired session succeeds,
\* returns a different refresh token, revokes that session and creates
\* exactly one new session of the same user, changing no other session; a
\* later refresh with a token that was rotated fails with Unauthorized and
\* changes nothing.
C5_RefreshSingleUse ==
    [][\A token \in AllRawTokens("refresh", MaxSessions) :
         Refresh(token) =>
            /\ \A i \in Presentable(sessions, token, now) :
                  /\ last'.kind = "ok"
                  /\ last'.refreshToken # token
                  /\ sessions'[i].revokedAt # Null
                  /\ Len(sessions') = Len(sessions) + 1
                  /\ sessions'[Len(sessions')].userId = sessions[i].userId
                  /\ sessions'[Len(sessions')].revokedAt = Null
                  /\ sessions'[Len(sessions')].refreshTokenHash
                        = hashToken(last'.refreshToken)
                  /\ \A j \in Ids(sessions) \ {i} : sessions'[j] = sessions[j]
            /\ token \in spent
                  => /\ last'.kind = "Unauthorized"
                     /\ sessions' = sessions
                     /\ users' = users
    ]_vars

C5_Witness ==
    /\ last.op = "refresh"
    /\ last.kind = "Unauthorized"
    /\ last.arg \in spent
    /\ \E i \in Ids(sessions) : /\ sessions[i].refreshTokenHash = hashToken(last.arg)
                                /\ sessions[i].revokedAt # Null
                                /\ \E j \in Ids(sessions) : j # i /\ chain[j] = chain[i]

\* The unused, unexpired token records of a table that a raw token names.
Valid(ts, token, t) ==
    {k \in Ids(ts) : /\ ts[k].tokenHash = hashToken(token)
                     /\ ts[k].usedAt = Null
                     /\ ~isAfter(t, ts[k].expiresAt)}

\* C7: a resetPassword with a valid token of a user succeeds and leaves every
\* session of that user revoked and the sessions of other users unchanged; a
\* refresh with a token issued to the user before the reset fails with
\* Unauthorized and creates no session.
C7_ResetRevokesSessions ==
    [][/\ \A token \in AllRawTokens("reset", MaxResetTokens), password \in Passwords :
            ResetPassword(token, password) =>
               \A k \in Valid(resetTokens, token, now) :
                  /\ last'.kind = "ok"
                  /\ Len(sessions') = Len(sessions)
                  /\ \A i \in Ids(sessions) :
                        IF sessions[i].userId = resetTokens[k].userId
                        THEN sessions'[i].revokedAt # Null
                        ELSE sessions'[i] = sessions[i]
       /\ \A token \in AllRawTokens("refresh", MaxSessions) :
            (Refresh(token) /\ token \in voided)
               => /\ last'.kind = "Unauthorized"
                  /\ sessions' = sessions
    ]_vars

C7_Witness ==
    /\ last.op = "refresh"
    /\ last.kind = "Unauthorized"
    /\ last.arg \in voided
    /\ \E k \in Ids(resetTokens) : resetTokens[k].usedAt # Null

\* C8: verifyEmail with an unused, unexpired token stamps the owner's
\* emailVerifiedAt and the token's usedAt; a used token stays used, and
\* verifyEmail with a used token fails with Validation (token already used)
\* and changes nothing.
C8_VerifyEmailOnce ==
    [][/\ \A token \in AllRawTokens("verify", MaxUsers) :
            VerifyEmail(token) =>
               /\ \A k \in Valid(emailTokens, token, now) :
                     /\ last'.kind = "ok"
                     /\ users'[emailTokens[k].userId].emailVerifiedAt = now
                     /\ emailTokens'[k].usedAt = now
               /\ \A k \in Ids(emailTokens) :
                     (emailTokens[k].tokenHash = hashToken(token)
                        /\ emailTokens[k].usedAt # Null)
                       => /\ last'.kind = "Validation"
                          /\ last'.msg = "Token already used"
                          /\ users' = users
                          /\ emailTokens' = emailTokens
       /\ \A k \in Ids(emailTokens) :
            emailTokens[k].usedAt # Null => emailTokens'[k].usedAt # Null
    ]_vars

C8_Witness ==
    /\ last.op = "verifyEmail"
    /\ last.kind = "Validation"
    /\ last.msg = "Token already used"
    /\ \E k \in Ids(emailTokens) :
          /\ emailTokens[k].tokenHash = hashToken(last.arg)
          /\ emailTokens[k].usedAt # Null
          /\ users[emailTokens[k].userId].emailVerifiedAt # Null

\* C9: no login and no refresh returns tokens or creates a session for a user
\* who is soft-deleted or inactive when the call is made.
C9_NoAuthForDisabledUser ==
    [][/\ \A email \in Emails, password \in Passwords :
            (HasEmail(users, email) /\ Login(email, password)
                /\ ~Eligible(users[UserWith(users, email)]))
               => last'.kind # "ok" /\ sessions' = sessions
       /\ \A token \in AllRawTokens("refresh", MaxSessions) :
            Refresh(token) =>
               \A i \in Ids(sessions) :
                  (sessions[i].refreshTokenHash = hashToken(token)
                     /\ ~Eligible(users[sessions[i].userId]))
                    => last'.kind # "ok" /\ sessions' = sessions
    ]_vars

\* C10: a login of an existing, not soft-deleted, inactive user fails with
\* Forbidden (account inactive) whatever the password, creates no session and
\* leaves failedLoginAttempts and lockedUntil as they were.
C10_InactiveLogin ==
    [][\A email \in Emails, password \in Passwords :
         (/\ HasEmail(users, email)
          /\ users[UserWith(users, email)].deletedAt = Null
          /\ ~users[UserWith(users, email)].isActive
          /\ HasPassword(users[UserWith(users, email)])
          /\ Login(email, password))
            => LET u == UserWith(users, email)
               IN  /\ last'.kind = "Forbidden"
                   /\ last'.msg = "Account is inactive"
                   /\ sessions' = sessions
                   /\ users'[u].failedLoginAttempts = users[u].failedLoginAttempts
                   /\ users'[u].lockedUntil = users[u].lockedUntil
    ]_vars


\* The non-revoked sessions that descend from one login.
LiveInChain(root) == {i \in Ids(sessions) : chain[i] = root /\ sessions[i].revokedAt = Null}

\* C6: whatever the interleaving of the session lookups and the rotations of
\* concurrent refresh calls, at most one non-revoked session descends from
\* any one login.
C6_OneRotationWinner ==
    \A root \in Ids(sessions) : Cardinality(LiveInChain(root)) <= 1

\* The one response of a login that fails on the credentials.
InvalidCredentials(email) == Fail("login", email, "Unauthorized", "Invalid credentials")

C12_NoPasswordNoLogin ==
    [][\A email \in Emails, password \in Passwords :
         (/\ HasEmail(users, email)
          /\ ~HasPassword(users[UserWith(users, email)])
          /\ Login(email, password))
            => /\ last'.kind # "ok"
               /\ sessions' = sessions
    ]_vars

\* The sessions of a table that store the hash of a refresh token.
SessionsWith(ss, token) == {i \in Ids(ss) : ss[i].refreshTokenHash = hashToken(token)}

\* C13: logout of a session leaves it with revokedAt set; a revoked session
\* stays revoked; and every later refresh with the refresh token of that
\* session fails with Unauthorized and creates no session.
C13_LogoutRevokes ==
    [][/\ \A sessionId \in 1..MaxSessions :
            Logout(sessionId) => /\ last'.kind = "ok"
                                 /\ sessions'[sessionId].revokedAt # Null
       /\ \A i \in Ids(sessions) :
            sessions[i].revokedAt # Null => sessions'[i].revokedAt # Null
       /\ \A token \in AllRawTokens("refresh", MaxSessions) :
            (/\ Refresh(token)
             /\ \E i \in SessionsWith(sessions, token) : sessions[i].revokedAt # Null)
               => /\ last'.kind = "Unauthorized"
                  /\ sessions' = sessions
    ]_vars

\* A refresh was refused for a token whose session was revoked by logout: no
\* rotation and no password reset has touched it.
C13_Witness ==
    /\ last.op = "refresh"
    /\ last.kind = "Unauthorized"
    /\ last.arg \notin spent
    /\ last.arg \notin voided
    /\ \E i \in SessionsWith(sessions, last.arg) :
          sessions[i].revokedAt # Null /\ ~isAfter(now, sessions[i].expiresAt)

\* C14: logout of a session that is already revoked succeeds, leaves it
\* revoked and leaves every other session, and every other table, as it was.
C14_LogoutIdempotent ==
    [][\A sessionId \in 1..MaxSessions :
         (/\ sessionId \in Ids(sessions)
          /\ sessions[sessionId].revokedAt # Null
          /\ Logout(sessionId))
            => /\ last'.kind = "ok"
               /\ sessions'[sessionId].revokedAt # Null
               /\ Len(sessions') = Len(sessions)
               /\ \A j \in Ids(sessions) \ {sessionId} : sessions'[j] = sessions[j]
               /\ UNCHANGED <<users, emailTokens, resetTokens>>
    ]_vars

\* A session that a rotation had revoked was logged out, while the session
\* that succeeded it is live.
C14_Witness ==
    /\ last.op = "logout"
    /\ last.kind = "ok"
    /\ \E token \in spent : last.arg \in SessionsWith(sessions, token)
    /\ \E j \in Ids(sessions) :
          /\ j # last.arg
          /\ chain[j] = chain[last.arg]
          /\ sessions[j].revokedAt = Null

\* C15: authenticate accepts a bearer token exactly when it carries the
\* server's signature and has not expired, whatever the session records are:
\* the access token of a revoked session is accepted until it expires.
C15_StatelessAccessToken ==
    [][\A token \in AllBearerTokens \ {NoAccess} :
         Authenticate(token) =>
            IF token.sig = JwtSecret /\ now < token.exp
            THEN last'.kind = "ok" /\ last'.accessToken = token
            ELSE last'.kind = "Unauthorized"
    ]_vars

\* The access token of a revoked session was accepted.
C15_Witness ==
    /\ last.op = "authenticate"
    /\ last.kind = "ok"
    /\ sessions[last.arg.sessionId].revokedAt # Null

\* The records of a token table that store the hash of a raw token.
RecordsWith(ts, token) == {k \in Ids(ts) : ts[k].tokenHash = hashToken(token)}

Consumed(token) == \E n \in 1..Len(consumed) : consumed[n] = token

\* C16: resetPassword fails with NotFound when no reset-token record stores
\* the hash of the token, and with Validation when the record is used or
\* expired; a failing call leaves the users, the reset tokens and the
\* sessions as they were, so a token that has reset a password cannot reset
\* it again.
C16_ResetPasswordFailures ==
    [][\A token \in AllRawTokens("reset", MaxResetTokens), password \in Passwords :
         ResetPassword(token, password) =>
            /\ RecordsWith(resetTokens, token) = {}
                  => last'.kind = "NotFound"
            /\ \A k \in RecordsWith(resetTokens, token) :
                  (resetTokens[k].usedAt # Null \/ isAfter(now, resetTokens[k].expiresAt))
                     => last'.kind = "Validation"
            /\ Consumed(token) => last'.kind = "Validation"
            /\ last'.kind # "ok" => UNCHANGED <<users, resetTokens, sessions, emailTokens>>
    ]_vars

\* A token that had reset the password was presented again before it expired
\* and was refused.
C16_Witness ==
    /\ last.op = "resetPassword"
    /\ last.kind = "Validation"
    /\ Consumed(last.arg)
    /\ \E k \in RecordsWith(resetTokens, last.arg) :
          /\ ~isAfter(now, resetTokens[k].expiresAt)
          /\ users[resetTokens[k].userId].passwordChangedAt = resetTokens[k].usedAt

\* C17: whatever the interleaving of the token lookups and the transactions
\* of concurrent verifyEmail and resetPassword calls, no one-time token has
\* its transaction run more than once: at most one call per token succeeds,
\* and at most one password is written for one reset token.
C17_OneTimeTokenOnce ==
    \A i, j \in 1..Len(consumed) : consumed[i] = consumed[j] => i = j

\* C18: forgotPassword returns the same success whether or not a user has
\* the email.  With no such user it runs one password verification, writes
\* nothing and sends no mail; with a user it adds exactly one reset-token
\* record, unused, of that user, storing the hash of the token it mails and
\* expiring passwordResetTokenExpiresMinutes from now, and writes nothing else.
C18_ForgotPasswordSilent ==
    [][\A email \in Emails :
         ForgotPassword(email) =>
            /\ last' = Ok("forgotPassword", email)
            /\ UNCHANGED <<users, sessions, emailTokens>>
            /\ ~HasEmail(users, email) =>
                  /\ resetTokens' = resetTokens
                  /\ effects' = Effects(1, NoMail)
            /\ HasEmail(users, email) =>
                  LET k == Len(resetTokens) + 1
                  IN  /\ Len(resetTokens') = k
                      /\ \A j \in Ids(resetTokens) : resetTokens'[j] = resetTokens[j]
                      /\ resetTokens'[k].userId = UserWith(users, email)
                      /\ resetTokens'[k].usedAt = Null
                      /\ resetTokens'[k].expiresAt = now + passwordResetTokenExpiresMinutes
                      /\ effects'.mail.to = email
                      /\ effects'.mail.token.use = "reset"
                      /\ resetTokens'[k].tokenHash = hashToken(effects'.mail.token)
                      /\ RecordsWith(resetTokens, effects'.mail.token) = {}
    ]_vars

\* A second reset token was mailed to a user who holds an unused one.
C18_Witness ==
    /\ last.op = "forgotPassword"
    /\ effects.mail.to = last.arg
    /\ Len(resetTokens) = 2
    /\ resetTokens[2].tokenHash = hashToken(effects.mail.token)
    /\ resetTokens[1].userId = resetTokens[2].userId
    /\ resetTokens[1].usedAt = Null
    /\ resetTokens[2].usedAt = Null

\* C19: getProfile fails with NotFound when no user has the id and when the
\* user with the id is soft-deleted; otherwise it returns that user's record
\* without the password hash.
C19_GetProfile ==
    [][\A userId \in 1..MaxUsers :
         GetProfile(userId) =>
            IF userId \notin Ids(users) \/ users[userId].deletedAt # Null
            THEN last'.kind = "NotFound"
            ELSE /\ last'.kind = "ok"
                 /\ "password" \notin DOMAIN last'.profile
                 /\ \A f \in DOMAIN last'.profile : last'.profile[f] = users[userId][f]
                 /\ DOMAIN users[userId] = DOMAIN last'.profile \cup {"password"}
    ]_vars

\* What the multi-step writes leave in every state: (a) each user has its
\* verification token; (b) a rotated session is revoked and has a successor,
\* and a session made by a rotation has a revoked predecessor; (c) a changed
\* password and a used reset token of the user come together; (d) a verified
\* user and a used verification token of the user come together.
WritesWhole ==
    /\ \A u \in Ids(users) : \E k \in Ids(emailTokens) : emailTokens[k].userId = u
    /\ \A token \in spent : \A i \in SessionsWith(sessions, token) :
          /\ sessions[i].revokedAt # Null
          /\ \E j \in Ids(sessions) : j > i /\ chain[j] = chain[i]
    /\ \A j \in Ids(sessions) :
          chain[j] # j => \E i \in Ids(sessions) :
                              /\ i < j
                              /\ chain[i] = chain[j]
                              /\ sessions[i].revokedAt # Null
                              /\ \E token \in spent : i \in SessionsWith(sessions, token)
    /\ \A u \in Ids(users) :
          users[u].passwordChangedAt # Null
             <=> \E k \in Ids(resetTokens) : /\ resetTokens[k].userId = u
                                              /\ resetTokens[k].usedAt # Null
    /\ \A u \in Ids(users) :
          users[u].emailVerifiedAt # Null
             <=> \E k \in Ids(emailTokens) : /\ emailTokens[k].userId = u
                                              /\ emailTokens[k].usedAt # Null

\* C20: under every interleaving of the calls, each step leaves the
\* multi-step writes whole, and the step that writes a password by a reset
\* token leaves that token used and no session of the user non-revoked.
C20_AtomicWrites ==
    [][/\ WritesWhole'
       /\ \A u \in Ids(users) :
            (\/ users'[u].passwordChangedAt # users[u].passwordChangedAt
             \/ users'[u].password # users[u].password /\ HasPassword(users'[u]))
               => /\ users'[u].passwordChangedAt = now
                  /\ \E k \in Ids(resetTokens) : /\ resetTokens[k].userId = u
                                                   /\ resetTokens'[k].usedAt = now
                  /\ LiveSessionsOf(sessions', u) = {}
       /\ \A k \in Ids(resetTokens) :
            resetTokens'[k].usedAt # resetTokens[k].usedAt
               => /\ users'[resetTokens[k].userId].passwordChangedAt = now
                  /\ LiveSessionsOf(sessions', resetTokens[k].userId) = {}
    ]_vars

\* A password reset has revoked a session of the user while another call is
\* between its lookup and its write.
C20_Witness ==
    /\ \E u \in Ids(users) : /\ users[u].passwordChangedAt # Null
                             /\ SessionsOf(sessions, u) # {}
                             /\ LiveSessionsOf(sessions, u) = {}
    /\ \E p \in Procs : pend[p] # Idle

\* C21: a call of register, forgotPassword or resetPassword whose mail the
\* transport failed to deliver returns the success it returns otherwise and
\* keeps its writes: the new user and its verification token, the new reset
\* token, or the new password, the used token and the revoked sessions.
C21_MailFailureHarmless ==
    [][(effects'.mail # NoMail /\ ~effects'.delivered) =>
          /\ \A name \in Names, email \in Emails, password \in Passwords :
                Register(name, email, password) =>
                   /\ last' = Ok("register", email)
                   /\ ~HasEmail(users, email)
                   /\ HasEmail(users', email)
                   /\ JustRegistered(users'[UserWith(users', email)], password)
                   /\ Len(emailTokens') = Len(emailTokens) + 1
                   /\ emailTokens'[Len(emailTokens')].userId = UserWith(users', email)
          /\ \A email \in Emails :
                ForgotPassword(email) =>
                   /\ last' = Ok("forgotPassword", email)
                   /\ Len(resetTokens') = Len(resetTokens) + 1
                   /\ resetTokens'[Len(resetTokens')].userId = UserWith(users, email)
                   /\ resetTokens'[Len(resetTokens')].tokenHash
                         = hashToken(effects'.mail.token)
          /\ \A token \in AllRawTokens("reset", MaxResetTokens), password \in Passwords :
                ResetPassword(token, password) =>
                   /\ last' = Ok("resetPassword", token)
                   /\ \A k \in Valid(resetTokens, token, now) :
                         /\ verifyPassword(password, users'[resetTokens[k].userId].password)
                         /\ users'[resetTokens[k].userId].passwordChangedAt = now
                         /\ resetTokens'[k].usedAt = now
                         /\ LiveSessionsOf(sessions', resetTokens[k].userId) = {}
    ]_vars

\* A password was reset and the confirmation mail was not delivered.
C21_Witness ==
    /\ last.op = "resetPassword"
    /\ last.kind = "ok"
    /\ effects.mail.subject = "Password Changed"
    /\ ~effects.delivered
    /\ \E k \in Ids(resetTokens) :
          /\ resetTokens[k].tokenHash = hashToken(last.arg)
          /\ resetTokens[k].usedAt = now
          /\ users[resetTokens[k].userId].passwordChangedAt = now

\* The non-revoked, non-deleted sessions that store the hash of a token.
Findable(ss, token) ==
    {i \in Ids(ss) : /\ ss[i].refreshTokenHash = hashToken(token)
                     /\ ss[i].revokedAt = Null
                     /\ ss[i].deletedAt = Null}

\* C22: a refresh fails with Unauthorized (invalid refresh token) when no
\* non-revoked, non-deleted session stores the hash of the token, and with
\* Unauthorized (session expired) when such a session exists and now is after
\* its expiresAt; either way no session is created or changed, so the expired
\* session is not marked revoked.
C22_RefreshFailures ==
    [][\A token \in AllRawTokens("refresh", MaxSessions) :
         Refresh(token) =>
            /\ Findable(sessions, token) = {}
                  => /\ last' = Fail("refresh", token, "Unauthorized",
                                     "Invalid refresh token")
                     /\ sessions' = sessions
            /\ \A i \in Findable(sessions, token) :
                  isAfter(now, sessions[i].expiresAt)
                     => /\ last' = Fail("refresh", token, "Unauthorized", "Session expired")
                        /\ sessions' = sessions
                        /\ sessions'[i].revokedAt = Null
    ]_vars

\* A refresh was refused for the expiry of a session that stays non-revoked.
C22_Witness ==
    /\ last.op = "refresh"
    /\ last.msg = "Session expired"
    /\ \E i \in Findable(sessions, last.arg) : isAfter(now, sessions[i].expiresAt)

\* C23: a login with a wrong password of an existing, active, unlocked user
\* stores failedLoginAttempts = previous + 1, sets lockedUntil to now +
\* lockDurationMinutes exactly when the new count has reached
\* maxLoginAttempts and to null otherwise, creates no session and fails with
\* Unauthorized (invalid credentials).
C23_WrongPasswordCounts ==
    [][\A email \in Emails, password \in Passwords :
         (/\ HasEmail(users, email)
          /\ Eligible(users[UserWith(users, email)])
          /\ HasPassword(users[UserWith(users, email)])
          /\ ~Locked(users[UserWith(users, email)], now)
          /\ ~verifyPassword(password, users[UserWith(users, email)].password)
          /\ Login(email, password))
            => LET u == UserWith(users, email)
                   attempts == users[u].failedLoginAttempts + 1
               IN  /\ users'[u].failedLoginAttempts = attempts
                   /\ users'[u].lockedUntil
                         = IF attempts >= maxLoginAttempts
                           THEN now + lockDurationMinutes
                           ELSE Null
                   /\ sessions' = sessions
                   /\ last' = InvalidCredentials(email)
    ]_vars

\* A wrong password has brought the count of a user to maxLoginAttempts and
\* set the lock.
C23_Witness ==
    /\ last.op = "login"
    /\ last = InvalidCredentials(last.arg)
    /\ HasEmail(users, last.arg)
    /\ LET u == UserWith(users, last.arg)
       IN  /\ Eligible(users[u])
           /\ users[u].failedLoginAttempts = maxLoginAttempts
           /\ users[u].lockedUntil = now + lockDurationMinutes
           /\ misses[u] = maxLoginAttempts
           /\ SessionsOf(sessions, u) = {}

\* C24: a successful login sets failedLoginAttempts to 0 and lockedUntil to
\* null, stamps lastLoginAt and creates exactly one session, of that user,
\* expiring refreshTokenExpiresDays from now; the access token returned
\* carries the id of that session, and no session that existed is revoked or
\* changed.
C24_LoginSuccessFrame ==
    [][\A email \in Emails, password \in Passwords :
         (/\ HasEmail(users, email)
          /\ Eligible(users[UserWith(users, email)])
          /\ HasPassword(users[UserWith(users, email)])
          /\ ~Locked(users[UserWith(users, email)], now)
          /\ verifyPassword(password, users[UserWith(users, email)].password)
          /\ Login(email, password))
            => LET u == UserWith(users, email)
                   k == Len(sessions) + 1
               IN  /\ last'.kind = "ok"
                   /\ users'[u].failedLoginAttempts = 0
                   /\ users'[u].lockedUntil = Null
                   /\ users'[u].lastLoginAt = now
                   /\ Len(sessions') = k
                   /\ sessions'[k].userId = u
                   /\ sessions'[k].revokedAt = Null
                   /\ sessions'[k].expiresAt = now + refreshTokenExpiresDays
                   /\ sessions'[k].refreshTokenHash = hashToken(last'.refreshToken)
                   /\ last'.accessToken.sessionId = k
                   /\ last'.accessToken.userId = u
                   /\ \A j \in Ids(sessions) : sessions'[j] = sessions[j]
    ]_vars

\* A user has logged in a second time: the counters are reset and the
\* session of the earlier login is still non-revoked.
C24_Witness ==
    /\ last.op = "login"
    /\ last.kind = "ok"
    /\ LET u == last.accessToken.userId
           k == last.accessToken.sessionId
       IN  /\ users[u].failedLoginAttempts = 0
           /\ users[u].lockedUntil = Null
           /\ users[u].lastLoginAt = now
           /\ k = Len(sessions)
           /\ sessions[k].expiresAt = now + refreshTokenExpiresDays
           /\ \E j \in LiveSessionsOf(sessions, u) :
                 j < k /\ sessions[j].expiresAt < sessions[k].expiresAt

\* The lock of a user was set and is over.
LockExpired(user, t) == user.lockedUntil # Null /\ ~isAfter(user.lockedUntil, t)

\* C29: the end of a lock does not reset the counter.  For an active user
\* with failedLoginAttempts >= maxLoginAttempts whose lockedUntil has passed,
\* a login with a wrong password fails, counts, and locks the account again
\* until now + lockDurationMinutes; a login with the right password succeeds
\* and sets failedLoginAttempts to 0 and lockedUntil to null.
C29_LockExpiryKeepsCount ==
    [][\A email \in Emails, password \in Passwords :
         (/\ HasEmail(users, email)
          /\ Eligible(users[UserWith(users, email)])
          /\ HasPassword(users[UserWith(users, email)])
          /\ users[UserWith(users, email)].failedLoginAttempts >= maxLoginAttempts
          /\ LockExpired(users[UserWith(users, email)], now)
          /\ Login(email, password))
            => LET u == UserWith(users, email)
               IN  IF verifyPassword(password, users[u].password)
                   THEN /\ last'.kind = "ok"
                        /\ users'[u].failedLoginAttempts = 0
                        /\ users'[u].lockedUntil = Null
                   ELSE /\ last' = InvalidCredentials(email)
                        /\ users'[u].failedLoginAttempts = users[u].failedLoginAttempts + 1
                        /\ users'[u].lockedUntil = now + lockDurationMinutes
                        /\ sessions' = sessions
    ]_vars

\* One wrong password after the end of a lock has locked the account again.
C29_Witness ==
    /\ last.op = "login"
    /\ last = InvalidCredentials(last.arg)
    /\ HasEmail(users, last.arg)
    /\ LET u == UserWith(users, last.arg)
       IN  /\ Eligible(users[u])
           /\ users[u].failedLoginAttempts = maxLoginAttempts + 1
           /\ users[u].lockedUntil = now + lockDurationMinutes
           /\ now >= lockDurationMinutes

\* C30: resetPassword marks only the token it was given: every other reset
\* token keeps its record, a resetPassword with an unused, unexpired token
\* succeeds whatever other tokens of the user were used before, and
\* forgotPassword adds a token and leaves the earlier ones as they were.
C30_OnlyConsumedTokenUsed ==
    [][/\ \A token \in AllRawTokens("reset", MaxResetTokens), password \in Passwords :
            ResetPassword(token, password) =>
               /\ \A k \in Ids(resetTokens) :
                     resetTokens[k].tokenHash # hashToken(token)
                        => resetTokens'[k] = resetTokens[k]
               /\ \A k \in Valid(resetTokens, token, now) :
                     /\ last'.kind = "ok"
                     /\ resetTokens'[k].usedAt = now
       /\ \A email \in Emails :
            ForgotPassword(email) =>
               /\ Len(resetTokens') >= Len(resetTokens)
               /\ \A k \in Ids(resetTokens) : resetTokens'[k] = resetTokens[k]
    ]_vars

\* Two reset tokens of one user were issued before either was used, and both
\* have reset the password.
C30_Witness ==
    /\ last.op = "resetPassword"
    /\ last.kind = "ok"
    /\ Len(consumed) = 2
    /\ \E j, k \in Ids(resetTokens) :
          /\ j < k
          /\ resetTokens[j].userId = resetTokens[k].userId
          /\ resetTokens[j].usedAt # Null
          /\ resetTokens[k].usedAt # Null
          /\ consumed[1].use = "reset"
          /\ consumed[2].use = "reset"
          /\ consumed[1] # consumed[2]

\* C25: when two register calls with the same unregistered email both look
\* the email up before either creates the user, at most one user with the
\* email exists afterwards, and the call that finds the email taken when it
\* creates fails with Conflict and writes nothing.
C25_ConcurrentRegister ==
    [][/\ \A email \in Emails :
            Cardinality({i \in Ids(users') : users'[i].email = email}) <= 1
       /\ \A p \in Procs :
            (/\ pend[p].op = "register"
             /\ HasEmail(users, pend[p].email)
             /\ RegisterCreate(p))
               => /\ last' = Fail("register", pend[p].email, "Conflict",
                                  "Email already registered")
                  /\ users' = users
                  /\ emailTokens' = emailTokens
    ]_vars

\* The user a reset token belongs to is the owner of the session.
ResetOf(token, userId) ==
    \E k \in Ids(resetTokens) : /\ resetTokens[k].tokenHash = hashToken(token)
                                 /\ resetTokens[k].userId = userId

\* The session was obtained with a credential that a later password reset of
\* its user made void: a refresh token issued before the reset, or a password
\* verified against the record read before the reset.
PreReset(j) ==
    IF origin[j].use = "password"
    THEN \E n \in (origin[j].n + 1)..Len(consumed) :
            /\ consumed[n].use = "reset"
            /\ ResetOf(consumed[n], sessions[j].userId)
    ELSE origin[j] \in voided

\* C26: once every call has finished, no user has a non-revoked session
\* obtained with a refresh token or a password that a reset of the user's
\* password has made void, also when the refresh or login was in flight
\* while the reset committed.
C26_ResetForcesRelogin ==
    (\A p \in Procs : pend[p] = Idle)
       => \A j \in Ids(sessions) : sessions[j].revokedAt = Null => ~PreReset(j)

\* C27: for an active user who has never logged in and whose password was
\* never reset, failedLoginAttempts equals the number of wrong-password
\* logins of that user that have completed, whatever the interleaving of
\* their lookups and writes.
C27_FailedAttemptsCounted ==
    \A u \in Ids(users) :
       (/\ Eligible(users[u])
        /\ users[u].lastLoginAt = Null
        /\ users[u].passwordChangedAt = Null
        /\ misses[u] <= maxLoginAttempts)
          => users[u].failedLoginAttempts = misses[u]

\* C28: in every state reached through register, login, refresh, logout,
\* forgotPassword and resetPassword, in any interleaving, a user with
\* failedLoginAttempts >= maxLoginAttempts has a lockedUntil.
C28_CountImpliesLock ==
    \A u \in Ids(users) :
       users[u].failedLoginAttempts >= maxLoginAttempts => users[u].lockedUntil # Null

\* A user was locked by a wrong password while another login of that user
\* is between its lookup and its write.
C28_Witness ==
    \E u \in Ids(users), p \in Procs :
       /\ users[u].failedLoginAttempts >= maxLoginAttempts
       /\ users[u].lockedUntil # Null
       /\ pend[p].op = "login"
       /\ pend[p].user.id = u
       /\ pend[p].user.failedLoginAttempts < maxLoginAttempts

====
